---------------------------- MODULE Spec2Model ----------------------------
(***************************************************************************)
(* Model of the pick-and-lift state machine of                             *)
(* source/standalone/galaxea/state_machine/pick_n_lift.py:                 *)
(* the warp kernel infer_state_machine and the two controllers             *)
(* PickAndLiftSm (dual arm) and PickAndLiftRightArmSm (right arm only).    *)
(*                                                                         *)
(* Times (dt, sm_wait_time, the PickSmWaitTime thresholds) are float32     *)
(* values, written as integers in units of 2^-30 s: every float32 in       *)
(* [2^-7, 2) is a multiple of 2^-30, and F32Add rounds a sum to the        *)
(* nearest float32 (ties to even) as the kernel's addition does.           *)
(* Lengths are integers in units of 1e-3 m, quaternion components in       *)
(* units of 1e-3, angles in quarter turns (pi/2).  Environment indices     *)
(* are 0 .. num_envs-1 as in the source; tuple positions are 1-based,      *)
(* so a source column k is position k+1 here.                              *)
(***************************************************************************)
EXTENDS Integers, Sequences, FiniteSets, TLC

VARIABLES
    self,   \* the controller object: a record of its fields, or None
    raised, \* the exception the last call raised, or NoError
    ret,    \* the tensor the last call returned, or NoTensor
    last,   \* the last call made: its name, and the scene its poses came from
    hist,   \* history: calls counted since construction, what each arm's step read
    peer    \* a PickAndLiftRightArmSm built with self's arguments (SpecPair), or None

vars == <<self, raised, ret, last, hist, peer>>

\* Python's None
None == [none |-> TRUE]
\* where a tensor is expected: the call returned None, or raised
NoTensor == <<>>
NoError == "NoError"

(***************************************************************************)
(* Bounds of the exploration.                                              *)
(***************************************************************************)
MaxEnvs == 2
MaxTicks == 40
MaxTokens == 3

(***************************************************************************)
(* float32                                                                 *)
(***************************************************************************)
\* the exponent of x > 0: 2^p <= x < 2^(p+1)
F32Exponent(x) == CHOOSE p \in 0..30 : x \div (2^p) = 1

\* x (an exact sum, in units of 2^-30) rounded to the nearest float32, ties to even
F32Round(x) ==
    IF x < 2^24 THEN x
    ELSE LET ulp == 2^(F32Exponent(x) - 23)
             q == x \div ulp
             r == x % ulp
         IN  IF 2 * r < ulp \/ (2 * r = ulp /\ q % 2 = 0)
             THEN q * ulp
             ELSE (q + 1) * ulp

F32Add(a, b) == F32Round(a + b)

(***************************************************************************)
(* Constants of the source.                                                *)
(***************************************************************************)
GripperState_OPEN == 1
GripperState_CLOSE == -1

PickSmState_REST == 0
PickSmState_APPROACH_ABOVE_OBJECT == 1
PickSmState_APPROACH_OBJECT == 2
PickSmState_GRASP_OBJECT == 3
PickSmState_LIFT_OBJECT == 4

\* float32(0.2), float32(0.5), float32(1.5), float32(0.5), float32(1.0)
PickSmWaitTime_REST == 214748368
PickSmWaitTime_APPROACH_ABOVE_OBJECT == 536870912
PickSmWaitTime_APPROACH_OBJECT == 1610612736
PickSmWaitTime_GRASP_OBJECT == 536870912
PickSmWaitTime_LIFT_OBJECT == 1073741824

PickSmStates == PickSmState_REST .. PickSmState_LIFT_OBJECT

Envs(n) == 0 .. (n - 1)

\* a batch (one row per environment) held as a tensor: every row computed, once
RECURSIVE TensorRows(_, _)
TensorRows(f, n) == IF n = 0 THEN <<>> ELSE TensorRows(f, n - 1) @@ ((n - 1) :> f[n - 1])

Tensor(f) == TensorRows(f, Cardinality(DOMAIN f))

(***************************************************************************)
(* Poses.  A pose is a 7-tuple: position, then the quaternion; callers of  *)
(* compute give (w, x, y, z), warp transforms hold (x, y, z, w).           *)
(***************************************************************************)
\* quaternion components and rotation matrices are in units of 1/Scale
Scale == 10^3

ZeroPose == <<0, 0, 0, 0, 0, 0, 0>>

\* rows[:, cols] for one row: the columns of row picked by the 1-based index list
RECURSIVE TakeColumnsFrom(_, _, _)
TakeColumnsFrom(row, cols, k) ==
    IF k > Len(cols) THEN <<>> ELSE <<row[cols[k]]>> \o TakeColumnsFrom(row, cols, k + 1)

TakeColumns(row, cols) == TakeColumnsFrom(row, cols, 1)

\* [0, 1, 2, 4, 5, 6, 3]: (w, x, y, z) to (x, y, z, w)
ToWarpOrder(pose) == TakeColumns(pose, <<1, 2, 3, 5, 6, 7, 4>>)

\* mutant: the exit reordering repeats the entry reordering
FromWarpOrder_AsEntry(pose) == ToWarpOrder(pose)

\* [0, 1, 2, 6, 3, 4, 5]: (x, y, z, w) back to (w, x, y, z)
FromWarpOrder(pose) == TakeColumns(pose, <<1, 2, 3, 7, 4, 5, 6>>)

\* quaternions (x, y, z, w) in units of 1/Scale
QuatMulXYZW(a, b) ==
    << (a[4] * b[1] + a[1] * b[4] + a[2] * b[3] - a[3] * b[2]) \div Scale,
       (a[4] * b[2] - a[1] * b[3] + a[2] * b[4] + a[3] * b[1]) \div Scale,
       (a[4] * b[3] + a[1] * b[2] - a[2] * b[1] + a[3] * b[4]) \div Scale,
       (a[4] * b[4] - a[1] * b[1] - a[2] * b[2] - a[3] * b[3]) \div Scale >>

Cross(u, v) ==
    << u[2] * v[3] - u[3] * v[2], u[3] * v[1] - u[1] * v[3], u[1] * v[2] - u[2] * v[1] >>

\* v rotated by the quaternion q (x, y, z, w): v + 2 w (q x v) + 2 q x (q x v)
QuatRotateXYZW(q, v) ==
    LET qv == <<q[1], q[2], q[3]>>
        c1 == Cross(qv, v)
        c2 == Cross(qv, c1)
    IN  << v[1] + (2 * q[4] * c1[1] + 2 * c2[1]) \div (Scale * Scale),
           v[2] + (2 * q[4] * c1[2] + 2 * c2[2]) \div (Scale * Scale),
           v[3] + (2 * q[4] * c1[3] + 2 * c2[3]) \div (Scale * Scale) >>

\* wp.transform_multiply(a, b): b expressed in a's parent frame
transform_multiply(a, b) ==
    LET p == QuatRotateXYZW(<<a[4], a[5], a[6], a[7]>>, <<b[1], b[2], b[3]>>)
        q == QuatMulXYZW(<<a[4], a[5], a[6], a[7]>>, <<b[4], b[5], b[6], b[7]>>)
    IN  <<a[1] + p[1], a[2] + p[2], a[3] + p[3], q[1], q[2], q[3], q[4]>>

(***************************************************************************)
(* The kernel, for one thread id: e holds the thread's slots of the        *)
(* kernel's arrays; the result holds the slots the kernel writes.          *)
(***************************************************************************)
\* mutant: every branch tests the wait time declared for its own state
KernelThreshold_OwnState(state) ==
    CASE state = PickSmState_REST -> PickSmWaitTime_REST
      [] state = PickSmState_APPROACH_ABOVE_OBJECT -> PickSmWaitTime_APPROACH_ABOVE_OBJECT
      [] state = PickSmState_APPROACH_OBJECT -> PickSmWaitTime_APPROACH_OBJECT
      [] state = PickSmState_GRASP_OBJECT -> PickSmWaitTime_GRASP_OBJECT
      [] state = PickSmState_LIFT_OBJECT -> PickSmWaitTime_LIFT_OBJECT

\* mutant: the LIFT_OBJECT branch tests the wait time of APPROACH_OBJECT
KernelThreshold_LiftLate(state) ==
    CASE state = PickSmState_REST -> PickSmWaitTime_REST
      [] state = PickSmState_APPROACH_ABOVE_OBJECT -> PickSmWaitTime_APPROACH_OBJECT
      [] state = PickSmState_APPROACH_OBJECT -> PickSmWaitTime_APPROACH_OBJECT
      [] state = PickSmState_GRASP_OBJECT -> PickSmWaitTime_GRASP_OBJECT
      [] state = PickSmState_LIFT_OBJECT -> PickSmWaitTime_APPROACH_OBJECT

\* the wait time each state's branch tests
KernelThreshold(state) ==
    CASE state = PickSmState_REST -> PickSmWaitTime_REST
      [] state = PickSmState_APPROACH_ABOVE_OBJECT -> PickSmWaitTime_APPROACH_OBJECT
      [] state = PickSmState_APPROACH_OBJECT -> PickSmWaitTime_APPROACH_OBJECT
      [] state = PickSmState_GRASP_OBJECT -> PickSmWaitTime_GRASP_OBJECT
      [] state = PickSmState_LIFT_OBJECT -> PickSmWaitTime_LIFT_OBJECT

\* the state each state's branch moves to
\* mutant: the LIFT_OBJECT branch sets REST when its test passes
KernelNextState_Cycle(state) ==
    IF state = PickSmState_LIFT_OBJECT THEN PickSmState_REST ELSE state + 1

KernelNextState(state) ==
    CASE state = PickSmState_REST -> PickSmState_APPROACH_ABOVE_OBJECT
      [] state = PickSmState_APPROACH_ABOVE_OBJECT -> PickSmState_APPROACH_OBJECT
      [] state = PickSmState_APPROACH_OBJECT -> PickSmState_GRASP_OBJECT
      [] state = PickSmState_GRASP_OBJECT -> PickSmState_LIFT_OBJECT
      [] state = PickSmState_LIFT_OBJECT -> PickSmState_LIFT_OBJECT

\* mutant: the approach offset is applied in the object's frame
KernelDesEePose_OffsetInObjectFrame(state, e) ==
    CASE state = PickSmState_REST -> e.ee_pose
      [] state = PickSmState_APPROACH_ABOVE_OBJECT -> transform_multiply(e.object_pose, e.offset)
      [] state = PickSmState_APPROACH_OBJECT -> e.object_pose
      [] state = PickSmState_GRASP_OBJECT -> e.object_pose
      [] state = PickSmState_LIFT_OBJECT -> e.des_object_pose

\* the pose each state's branch writes to des_ee_pose
KernelDesEePose(state, e) ==
    CASE state = PickSmState_REST -> e.ee_pose
      [] state = PickSmState_APPROACH_ABOVE_OBJECT -> transform_multiply(e.offset, e.object_pose)
      [] state = PickSmState_APPROACH_OBJECT -> e.object_pose
      [] state = PickSmState_GRASP_OBJECT -> e.object_pose
      [] state = PickSmState_LIFT_OBJECT -> e.des_object_pose

\* mutant: the gripper closes only once the object is being lifted
KernelGripper_OpenInGrasp(state) ==
    IF state = PickSmState_LIFT_OBJECT THEN GripperState_CLOSE ELSE GripperState_OPEN

\* the command each state's branch writes to gripper_state
KernelGripper(state) ==
    CASE state = PickSmState_REST -> GripperState_OPEN
      [] state = PickSmState_APPROACH_ABOVE_OBJECT -> GripperState_OPEN
      [] state = PickSmState_APPROACH_OBJECT -> GripperState_OPEN
      [] state = PickSmState_GRASP_OBJECT -> GripperState_CLOSE
      [] state = PickSmState_LIFT_OBJECT -> GripperState_CLOSE

\* mutant: a branch whose test passed leaves the wait time as it is
KernelWaitAfterBranch_Keep(state, wait) == wait

\* the wait time the increment reads: 0.0 when the branch's test passed
KernelWaitAfterBranch(state, wait) ==
    IF wait >= KernelThreshold(state) THEN 0 ELSE wait

\* the kernel's last statement
\* mutant: the wait time is incremented twice
KernelIncrement_Twice(wait, dt) == F32Add(F32Add(wait, dt), dt)

\* mutant: the kernel's last statement adds nothing
KernelIncrement_None(wait, dt) == wait

KernelIncrement(wait, dt) == F32Add(wait, dt)

\* mutant: the wait time is incremented before the branches test it
infer_state_machine_IncrementFirst(e) ==
    LET state == e.sm_state
        waited == KernelIncrement(e.sm_wait_time, e.dt)
    IN  [ sm_state |-> IF waited >= KernelThreshold(state) THEN KernelNextState(state) ELSE state,
          sm_wait_time |-> KernelWaitAfterBranch(state, waited),
          des_ee_pose |-> KernelDesEePose(state, e),
          gripper_state |-> KernelGripper(state) ]

infer_state_machine(e) ==
    LET state == e.sm_state
    IN  IF state \in PickSmStates
        THEN [ sm_state |-> IF e.sm_wait_time >= KernelThreshold(state)
                            THEN KernelNextState(state) ELSE state,
               sm_wait_time |-> KernelIncrement(KernelWaitAfterBranch(state, e.sm_wait_time), e.dt),
               des_ee_pose |-> KernelDesEePose(state, e),
               gripper_state |-> KernelGripper(state) ]
        ELSE [ sm_state |-> state,
               sm_wait_time |-> KernelIncrement(e.sm_wait_time, e.dt),
               des_ee_pose |-> e.des_ee_pose,
               gripper_state |-> e.gripper_state ]

(***************************************************************************)
(* Task names are strings: sequences of characters.                        *)
(***************************************************************************)
\* str.lower() on the characters the task names use
LowerChar(c) ==
    CASE c = "C" -> "c" [] c = "U" -> "u" [] c = "B" -> "b" [] c = "E" -> "e"
      [] c = "I" -> "i" [] c = "N" -> "n" [] c = "P" -> "p" [] c = "K" -> "k"
      [] OTHER -> c

lower(s) == [k \in 1..Len(s) |-> LowerChar(s[k])]

\* Python's  sub in s
StrIn(sub, s) ==
    \E start \in 0..(Len(s) - Len(sub)) :
        \A k \in 1..Len(sub) : s[start + k] = sub[k]

Str_cube == <<"c", "u", "b", "e">>
Str_bin == <<"b", "i", "n">>

\* task_offset: x, y, z (1e-3 m), roll, pitch, yaw (quarter turns; 1.5707963 is pi/2)
TaskOffsetZero == <<0, 0, 0, 0, 0, 0>>
TaskOffsetCube == <<0, 150, -5, 0, 0, 1>>
TaskOffsetBin == <<0, 145, 25, 0, 0, 0>>

\* mutant: the task name is matched as written, without lower()
set_task_config_CaseSensitive(task) ==
    IF StrIn(Str_cube, task)
    THEN [raised |-> NoError, task_offset |-> TaskOffsetCube]
    ELSE IF StrIn(Str_bin, task)
    THEN [raised |-> NoError, task_offset |-> TaskOffsetBin]
    ELSE [raised |-> <<"ValueError", "Unsupported task", task>>, task_offset |-> TaskOffsetZero]

\* set_task_config: the task_offset it leaves, and what it raises
set_task_config(task) ==
    IF StrIn(Str_cube, lower(task))
    THEN [raised |-> NoError, task_offset |-> TaskOffsetCube]
    ELSE IF StrIn(Str_bin, lower(task))
    THEN [raised |-> NoError, task_offset |-> TaskOffsetBin]
    ELSE [raised |-> <<"ValueError", "Unsupported task", task>>, task_offset |-> TaskOffsetZero]

(***************************************************************************)
(* The controllers.  PickAndLiftSm and PickAndLiftRightArmSm have the same *)
(* __init__, set_task_config, reset_idx and compute; cls tells them apart. *)
(***************************************************************************)
Cls_PickAndLiftSm == "PickAndLiftSm"
Cls_PickAndLiftRightArmSm == "PickAndLiftRightArmSm"
Classes == {Cls_PickAndLiftSm, Cls_PickAndLiftRightArmSm}

\* the approach offset of __init__: z = 0.1, quaternion (x, y, z, w) = (0, 0, 0, 1)
ApproachOffset == <<0, 0, 100, 0, 0, 0, Scale>>

\* mutant: the wait time starts at dt instead of 0
New_WaitStartsAtDt(cls, task, dt, num_envs) ==
    LET cfg == set_task_config(task)
    IN  IF cfg.raised # NoError
        THEN [self |-> None, raised |-> cfg.raised]
        ELSE [self |-> [ cls |-> cls,
                         task |-> task,
                         dt |-> dt,
                         num_envs |-> num_envs,
                         sm_dt |-> [i \in Envs(num_envs) |-> dt],
                         sm_state |-> [i \in Envs(num_envs) |-> 0],
                         sm_wait_time |-> [i \in Envs(num_envs) |-> dt],
                         des_ee_pose |-> [i \in Envs(num_envs) |-> ZeroPose],
                         des_gripper_state |-> [i \in Envs(num_envs) |-> 0],
                         offset |-> [i \in Envs(num_envs) |-> ApproachOffset],
                         task_offset |-> cfg.task_offset ],
              raised |-> NoError]

\* __init__: the object it builds, or None with the exception set_task_config raised
New(cls, task, dt, num_envs) ==
    LET cfg == set_task_config(task)
    IN  IF cfg.raised # NoError
        THEN [self |-> None, raised |-> cfg.raised]
        ELSE [self |-> [ cls |-> cls,
                         task |-> task,
                         dt |-> dt,
                         num_envs |-> num_envs,
                         sm_dt |-> [i \in Envs(num_envs) |-> dt],
                         sm_state |-> [i \in Envs(num_envs) |-> 0],
                         sm_wait_time |-> [i \in Envs(num_envs) |-> 0],
                         des_ee_pose |-> [i \in Envs(num_envs) |-> ZeroPose],
                         des_gripper_state |-> [i \in Envs(num_envs) |-> 0],
                         offset |-> [i \in Envs(num_envs) |-> ApproachOffset],
                         task_offset |-> cfg.task_offset ],
              raised |-> NoError]

\* the env_ids argument of reset_idx: None (the default), or a sequence of indices,
\* of which only the set of its members matters to the indexed assignment
EnvIdsNone == [is_none |-> TRUE, ids |-> {}]
EnvIds(S) == [is_none |-> FALSE, ids |-> S]

\* mutant: env_ids None selects no index
ResetIndices_NoneIsEmpty(obj, env_ids) == env_ids.ids

\* the indices reset_idx assigns to: env_ids None is slice(None), every index
ResetIndices(obj, env_ids) ==
    IF env_ids.is_none THEN Envs(obj.num_envs) ELSE env_ids.ids

\* mutant: every environment is reset, whatever env_ids is
reset_idx_All(obj, env_ids) ==
    [obj EXCEPT !.sm_state = Tensor([i \in Envs(obj.num_envs) |-> 0]),
                !.sm_wait_time = Tensor([i \in Envs(obj.num_envs) |-> 0])]

reset_idx(obj, env_ids) ==
    [obj EXCEPT !.sm_state = Tensor([i \in Envs(obj.num_envs) |->
                                 IF i \in ResetIndices(obj, env_ids) THEN 0 ELSE @[i]]),
                !.sm_wait_time = Tensor([i \in Envs(obj.num_envs) |->
                                 IF i \in ResetIndices(obj, env_ids) THEN 0 ELSE @[i]])]

\* mutant: every thread reads the wait time of environment 0
KernelSlots_SharedWait(obj, tid, ee_pose, object_pose, des_object_pose) ==
    [ dt |-> obj.sm_dt[tid],
      sm_state |-> obj.sm_state[tid],
      sm_wait_time |-> obj.sm_wait_time[0],
      ee_pose |-> ToWarpOrder(ee_pose[tid]),
      object_pose |-> ToWarpOrder(object_pose[tid]),
      des_object_pose |-> ToWarpOrder(des_object_pose[tid]),
      des_ee_pose |-> obj.des_ee_pose[tid],
      gripper_state |-> obj.des_gripper_state[tid],
      offset |-> obj.offset[tid] ]

\* the slots of thread tid that the kernel launched by compute reads
KernelSlots(obj, tid, ee_pose, object_pose, des_object_pose) ==
    [ dt |-> obj.sm_dt[tid],
      sm_state |-> obj.sm_state[tid],
      sm_wait_time |-> obj.sm_wait_time[tid],
      ee_pose |-> ToWarpOrder(ee_pose[tid]),
      object_pose |-> ToWarpOrder(object_pose[tid]),
      des_object_pose |-> ToWarpOrder(des_object_pose[tid]),
      des_ee_pose |-> obj.des_ee_pose[tid],
      gripper_state |-> obj.des_gripper_state[tid],
      offset |-> obj.offset[tid] ]

\* the action row compute returns for one environment: pose (w, x, y, z), then gripper
ComputeRow(des_ee_pose, gripper) == FromWarpOrder(des_ee_pose) \o <<gripper>>

\* wp.launch(kernel=infer_state_machine, dim=num_envs, ...): what every thread writes
KernelLaunch(obj, ee_pose, object_pose, des_object_pose) ==
    Tensor([tid \in Envs(obj.num_envs) |->
               infer_state_machine(KernelSlots(obj, tid, ee_pose, object_pose, des_object_pose))])

\* the object's tensors after the launch: the kernel writes through their warp views
KernelStore(obj, out) ==
    [obj EXCEPT !.sm_state = Tensor([i \in Envs(obj.num_envs) |-> out[i].sm_state]),
                !.sm_wait_time = Tensor([i \in Envs(obj.num_envs) |-> out[i].sm_wait_time]),
                !.des_ee_pose = Tensor([i \in Envs(obj.num_envs) |-> out[i].des_ee_pose]),
                !.des_gripper_state = Tensor([i \in Envs(obj.num_envs) |-> out[i].gripper_state])]

\* compute's return statement, on the object the launch left
ComputeReturn(obj) ==
    [ self |-> obj,
      ret |-> Tensor([i \in Envs(obj.num_envs) |->
                         ComputeRow(obj.des_ee_pose[i], obj.des_gripper_state[i])]) ]

\* compute: the object after the kernel ran on every thread, and the returned batch
compute(obj, ee_pose, object_pose, des_object_pose) ==
    ComputeReturn(KernelStore(obj, KernelLaunch(obj, ee_pose, object_pose, des_object_pose)))

(***************************************************************************)
(* omni.isaac.lab.utils.math, as generate_actions uses it.  Angles are in  *)
(* quarter turns, so half angles are eighth turns.                         *)
(***************************************************************************)
\* cos of 0, 1, ... 7 eighth turns, in units of 1/Scale
CosTable == <<1000, 707, 0, -707, -1000, -707, 0, 707>>

CosEighth(k) == CosTable[(k % 8) + 1]

SinEighth(k) == CosEighth(k - 2)

\* quat_from_euler_xyz(roll, pitch, yaw): the quaternion (w, x, y, z)
quat_from_euler_xyz(roll, pitch, yaw) ==
    LET cr == CosEighth(roll)  sr == SinEighth(roll)
        cp == CosEighth(pitch) sp == SinEighth(pitch)
        cy == CosEighth(yaw)   sy == SinEighth(yaw)
        S3 == Scale * Scale
    IN  << (cy * cr * cp + sy * sr * sp) \div S3,
           (cy * sr * cp - sy * cr * sp) \div S3,
           (cy * cr * sp + sy * sr * cp) \div S3,
           (sy * cr * cp - cy * sr * sp) \div S3 >>

\* atan2 on the axes, in quarter turns
Atan2Quarter(sin, cos) ==
    CASE sin = 0 /\ cos > 0 -> 0
      [] sin > 0 /\ cos = 0 -> 1
      [] sin = 0 /\ cos < 0 -> 2
      [] sin < 0 /\ cos = 0 -> -1

\* euler_xyz_from_quat(quat)[2]: the yaw of the quaternion (w, x, y, z)
euler_xyz_from_quat_yaw(q) ==
    Atan2Quarter(2 * (q[1] * q[4] + q[2] * q[3]),
                 Scale * Scale - 2 * (q[3] * q[3] + q[4] * q[4]))

\* combine_frame_transforms(t01, q01, t12)[0]: t01 + q01 applied to t12, q01 as (w, x, y, z)
combine_frame_transforms_pos(t01, q01, t12) ==
    LET r == QuatRotateXYZW(<<q01[2], q01[3], q01[4], q01[1]>>, t12)
    IN  <<t01[1] + r[1], t01[2] + r[2], t01[3] + r[3]>>

VecSub(u, v) == <<u[1] - v[1], u[2] - v[2], u[3] - v[3]>>

\* the rows numbered i of tensors k, k+1, ... joined
RECURSIVE JoinRows(_, _, _)
JoinRows(tensors, i, k) ==
    IF k > Len(tensors) THEN <<>> ELSE tensors[k][i] \o JoinRows(tensors, i, k + 1)

\* torch.cat(tensors, dim=-1) of batches (functions from row index to row):
\* the row counts must agree, or torch raises
torch_cat(tensors) ==
    IF \A k \in 1..Len(tensors) : DOMAIN tensors[k] = DOMAIN tensors[1]
    THEN [raised |-> NoError, value |-> Tensor([i \in DOMAIN tensors[1] |-> JoinRows(tensors, i, 1)])]
    ELSE [raised |-> "RuntimeError", value |-> NoTensor]

(***************************************************************************)
(* generate_actions.  env is what the scene shows: obs.left_pos_w,         *)
(* obs.left_quat_w, obs.right_pos_w, obs.right_quat_w, obs.env_origins,    *)
(* obs.root_pos_w, obs.root_quat_w, each a batch over the environments.    *)
(***************************************************************************)
\* x[:, 0] = yaw + delta, then quat_from_euler_xyz and the columns [3, 0, 1, 2]
DesiredOrientation(yaw, delta) ==
    TakeColumns(quat_from_euler_xyz(yaw + delta, 0, 0), <<4, 1, 2, 3>>)

\* the poses the right arm's compute is given by PickAndLiftSm.generate_actions
DualRightInputs(obj, obs, goal_pos) ==
    LET E == Envs(obj.num_envs)
        to == obj.task_offset
        object_position == Tensor([i \in E |-> VecSub(obs.root_pos_w[i], obs.env_origins[i])])
        yaw == Tensor([i \in E |-> euler_xyz_from_quat_yaw(obs.root_quat_w[i])])
        right_object_position == [i \in E |->
            combine_frame_transforms_pos(object_position[i], obs.root_quat_w[i], <<0, -to[2], to[3]>>)]
        right_desired_position == [i \in E |-> <<goal_pos[i][1], goal_pos[i][2] - to[2], goal_pos[i][3]>>]
        right_desired_orientation == Tensor([i \in E |-> DesiredOrientation(yaw[i], to[6])])
    IN  [ ee_pose |-> Tensor([i \in E |-> VecSub(obs.right_pos_w[i], obs.env_origins[i]) \o obs.right_quat_w[i]]),
          object_pose |-> Tensor([i \in E |-> right_object_position[i] \o right_desired_orientation[i]]),
          des_object_pose |-> Tensor([i \in E |-> right_desired_position[i] \o right_desired_orientation[i]]) ]

\* mutant: the left arm is given the right arm's poses
DualLeftInputs_AsRight(obj, obs, goal_pos) == DualRightInputs(obj, obs, goal_pos)

\* the poses the left arm's compute is given by PickAndLiftSm.generate_actions
DualLeftInputs(obj, obs, goal_pos) ==
    LET E == Envs(obj.num_envs)
        to == obj.task_offset
        object_position == Tensor([i \in E |-> VecSub(obs.root_pos_w[i], obs.env_origins[i])])
        yaw == Tensor([i \in E |-> euler_xyz_from_quat_yaw(obs.root_quat_w[i])])
        left_object_position == [i \in E |->
            combine_frame_transforms_pos(object_position[i], obs.root_quat_w[i], <<0, to[2], to[3]>>)]
        left_desired_position == [i \in E |-> <<goal_pos[i][1], goal_pos[i][2] + to[2], goal_pos[i][3]>>]
        left_desired_orientation == Tensor([i \in E |-> DesiredOrientation(yaw[i], -to[6])])
    IN  [ ee_pose |-> Tensor([i \in E |-> VecSub(obs.left_pos_w[i], obs.env_origins[i]) \o obs.left_quat_w[i]]),
          object_pose |-> Tensor([i \in E |-> left_object_position[i] \o left_desired_orientation[i]]),
          des_object_pose |-> Tensor([i \in E |-> left_desired_position[i] \o left_desired_orientation[i]]) ]

\* the poses the right arm's compute is given by PickAndLiftRightArmSm.generate_actions
SingleRightInputs(obj, obs, goal_pos) ==
    LET E == Envs(obj.num_envs)
        to == obj.task_offset
        object_position == Tensor([i \in E |-> VecSub(obs.root_pos_w[i], obs.env_origins[i])])
        yaw == Tensor([i \in E |-> euler_xyz_from_quat_yaw(obs.root_quat_w[i])])
        right_object_position == [i \in E |->
            combine_frame_transforms_pos(object_position[i], obs.root_quat_w[i], <<0, 0, 0>>)]
        right_desired_position == [i \in E |-> <<goal_pos[i][1], goal_pos[i][2] - to[2], goal_pos[i][3]>>]
        right_desired_orientation == Tensor([i \in E |-> DesiredOrientation(yaw[i], to[6])])
    IN  [ ee_pose |-> Tensor([i \in E |-> VecSub(obs.right_pos_w[i], obs.env_origins[i]) \o obs.right_quat_w[i]]),
          object_pose |-> Tensor([i \in E |-> right_object_position[i] \o right_desired_orientation[i]]),
          des_object_pose |-> Tensor([i \in E |-> right_desired_position[i] \o right_desired_orientation[i]]) ]

\* the (sm_state, sm_wait_time) a compute call begins with
Reads(obj) == [sm_state |-> obj.sm_state, sm_wait_time |-> obj.sm_wait_time]

\* compute on the three pose batches of in
ComputeWith(obj, in) == compute(obj, in.ee_pose, in.object_pose, in.des_object_pose)

\* return actions, the object being what the last compute left
GenerateReturn(obj, actions, reads) ==
    [self |-> obj, raised |-> actions.raised, ret |-> actions.value, reads |-> reads]

\* actions = torch.cat([left_actions, right_actions], dim=-1)
DualConcat(obj, left, right) ==
    GenerateReturn(right.self, torch_cat(<<left.ret, right.ret>>), <<Reads(obj), Reads(left.self)>>)

\* the right arm's compute, on the object the left arm's compute left
DualAfterLeft(obj, obs, goal_pos, left) ==
    DualConcat(obj, left, ComputeWith(left.self, DualRightInputs(obj, obs, goal_pos)))

\* PickAndLiftSm.generate_actions: the left arm's compute, then the right arm's, on self
DualGenerateActions(obj, obs, goal_pos) ==
    DualAfterLeft(obj, obs, goal_pos, ComputeWith(obj, DualLeftInputs(obj, obs, goal_pos)))

\* the tensor [[1.0]] the left arm's action row is closed with
LeftGripperTensor == [i \in Envs(1) |-> <<1>>]

\* left_actions = torch.cat([left_tcp_rest_position, left_tcp_rest_orientation, [[1.0]]], dim=-1)
SingleLeftActions(obj, obs) ==
    torch_cat(<< [i \in Envs(obj.num_envs) |-> VecSub(obs.left_pos_w[i], obs.env_origins[i])],
                 [i \in Envs(obj.num_envs) |-> obs.left_quat_w[i]],
                 LeftGripperTensor >>)

\* actions = torch.cat([left_actions, right_actions], dim=-1)
SingleConcat(obj, left_actions, right) ==
    GenerateReturn(right.self, torch_cat(<<left_actions.value, right.ret>>), <<Reads(obj)>>)

\* the right arm's compute, reached when building left_actions did not raise
SingleAfterLeft(obj, obs, goal_pos, left_actions) ==
    IF left_actions.raised # NoError
    THEN GenerateReturn(obj, left_actions, <<>>)
    ELSE SingleConcat(obj, left_actions, ComputeWith(obj, SingleRightInputs(obj, obs, goal_pos)))

\* PickAndLiftRightArmSm.generate_actions: the left arm's row is built from what is
\* observed, the right arm's by compute
SingleGenerateActions(obj, obs, goal_pos) ==
    SingleAfterLeft(obj, obs, goal_pos, SingleLeftActions(obj, obs))

generate_actions(obj, obs, goal_pos) ==
    IF obj.cls = Cls_PickAndLiftSm
    THEN DualGenerateActions(obj, obs, goal_pos)
    ELSE SingleGenerateActions(obj, obs, goal_pos)

(***************************************************************************)
(* The inputs the model draws.                                             *)
(***************************************************************************)
\* float32(0.5)
DtCoarse == {F32Round(536870912)}
\* float32(0.1), float32(0.01)
Dt_0_1 == F32Round(107374184)
Dt_0_01 == F32Round(10737418)
DtFine == {Dt_0_1, Dt_0_01}

Tasks == { <<"C", "u", "b", "e">>, <<"b", "i", "n">> }

SceneIds == {1, 2}

\* the poses a direct caller of compute passes, quaternions as (w, x, y, z)
ComputeInputs(n, s) ==
    [ ee_pose |-> [i \in Envs(n) |-> <<10 * s + i, 20, 30, 100, 300, 500, 806>>],
      object_pose |-> [i \in Envs(n) |-> <<40 + i, 50 * s, 60, 806, 500, 300, 100>>],
      des_object_pose |-> [i \in Envs(n) |-> <<70, 80 + i, 90 * s, 500, -500, 500, 500>>] ]

\* what the scene shows generate_actions: scene 1 has the object unrotated,
\* scene 2 has it turned by pi about z
Observation(n, s) ==
    LET origin == [i \in Envs(n) |-> <<200 * i, 0, 0>>]
    IN  [ env_origins |-> origin,
          left_pos_w |-> [i \in Envs(n) |-> <<origin[i][1] + 300, 200 + 10 * s, 400 + i>>],
          left_quat_w |-> [i \in Envs(n) |-> <<100, 300, 500, 806>>],
          right_pos_w |-> [i \in Envs(n) |-> <<origin[i][1] + 300, -200 - 10 * s, 400 + i>>],
          right_quat_w |-> [i \in Envs(n) |-> <<806, 500, 300, 100>>],
          root_pos_w |-> [i \in Envs(n) |-> <<origin[i][1] + 500, 10 * i, 50>>],
          root_quat_w |-> [i \in Envs(n) |-> IF s = 1 THEN <<Scale, 0, 0, 0>> ELSE <<0, 0, 0, Scale>>] ]

GoalPos(n, s) == [i \in Envs(n) |-> <<400, 0, 300 + 50 * s>>]

(***************************************************************************)
(* History.                                                                *)
(***************************************************************************)
\* a count of calls, kept up to MaxTicks (MaxTicks stands for MaxTicks or more)
Counted(k, by) == IF k + by > MaxTicks THEN MaxTicks ELSE k + by

HistInit ==
    [ no_reset |-> TRUE,    \* reset_idx has not been called since construction
      computes |-> 0,       \* compute calls since construction, while no_reset
      gen_only |-> TRUE,    \* every compute call so far was made by generate_actions
      generates |-> 0,      \* generate_actions calls since construction, while no_reset and gen_only
      reads |-> <<>> ]      \* what each compute call of the last call read

HistAfterCompute(h, reads) ==
    [ no_reset |-> h.no_reset,
      computes |-> IF h.no_reset THEN Counted(h.computes, 1) ELSE 0,
      gen_only |-> FALSE,
      generates |-> 0,
      reads |-> reads ]

HistAfterGenerate(h, reads) ==
    [ no_reset |-> h.no_reset,
      computes |-> IF h.no_reset THEN Counted(h.computes, Len(reads)) ELSE 0,
      gen_only |-> h.gen_only,
      generates |-> IF h.no_reset /\ h.gen_only THEN Counted(h.generates, 1) ELSE 0,
      reads |-> reads ]

HistAfterReset ==
    [no_reset |-> FALSE, computes |-> 0, gen_only |-> FALSE, generates |-> 0, reads |-> <<>>]

(***************************************************************************)
(* The calls a driver makes on a constructed controller.                   *)
(***************************************************************************)
\* a call returned (or raised) r
Returned(r, op, s, h) ==
    /\ self' = r.self
    /\ ret' = r.ret
    /\ raised' = r.raised
    /\ last' = [op |-> op, scene |-> s]
    /\ hist' = h

Compute ==
    /\ self # None
    /\ \E s \in SceneIds :
         \E r \in {ComputeWith(self, ComputeInputs(self.num_envs, s))} :
            Returned([self |-> r.self, ret |-> r.ret, raised |-> NoError], "compute", s,
                     HistAfterCompute(hist, <<Reads(self)>>))
    /\ UNCHANGED peer

ResetIdx ==
    /\ self # None
    /\ \E S \in SUBSET Envs(self.num_envs) :
         /\ self' = reset_idx(self, EnvIds(S))
         /\ last' = [op |-> "reset_idx", scene |-> 0]
    /\ ret' = NoTensor
    /\ raised' = NoError
    /\ hist' = HistAfterReset
    /\ UNCHANGED peer

ResetAll ==
    /\ self # None
    /\ self' = reset_idx(self, EnvIdsNone)
    /\ last' = [op |-> "reset_idx", scene |-> 0]
    /\ ret' = NoTensor
    /\ raised' = NoError
    /\ hist' = HistAfterReset
    /\ UNCHANGED peer

GenerateActions ==
    /\ self # None
    /\ \E s \in SceneIds :
         \E r \in {generate_actions(self, Observation(self.num_envs, s), GoalPos(self.num_envs, s))} :
            Returned(r, "generate_actions", s, HistAfterGenerate(hist, r.reads))
    /\ UNCHANGED peer

\* the state after construction
Constructed(cls, task, dt, num_envs) ==
    /\ self = New(cls, task, dt, num_envs).self
    /\ raised = NoError
    /\ ret = NoTensor
    /\ last = [op |-> "__init__", scene |-> 0]
    /\ hist = HistInit
    /\ peer = None

Init ==
    \E cls \in Classes, task \in Tasks, dt \in DtCoarse, num_envs \in 1..MaxEnvs :
        Constructed(cls, task, dt, num_envs)

Next == Compute \/ ResetIdx \/ ResetAll \/ GenerateActions

Spec == Init /\ [][Next]_vars

\* one environment, stepped finely
InitTicks ==
    \E cls \in Classes, task \in Tasks, dt \in DtFine :
        Constructed(cls, task, dt, 1)

SpecTicks == InitTicks /\ [][Next]_vars

(***************************************************************************)
(* Two controllers built with the same arguments, a PickAndLiftSm (self)   *)
(* and a PickAndLiftRightArmSm (peer), given the same scene on every tick. *)
(***************************************************************************)
InitPair ==
    \E task \in Tasks, dt \in DtCoarse \cup DtFine :
        /\ self = New(Cls_PickAndLiftSm, task, dt, 1).self
        /\ raised = NoError
        /\ ret = NoTensor
        /\ last = [op |-> "__init__", scene |-> 0]
        /\ hist = HistInit
        /\ peer = [ self |-> New(Cls_PickAndLiftRightArmSm, task, dt, 1).self,
                    ret |-> NoTensor, raised |-> NoError ]

PairGenerateActions ==
    /\ self # None
    /\ peer # None
    /\ \E s \in SceneIds :
         \E r \in {generate_actions(self, Observation(self.num_envs, s), GoalPos(self.num_envs, s))},
            q \in {generate_actions(peer.self, Observation(self.num_envs, s), GoalPos(self.num_envs, s))} :
            /\ Returned(r, "generate_actions", s, HistAfterGenerate(hist, r.reads))
            /\ peer' = [self |-> q.self, ret |-> q.ret, raised |-> q.raised]

NextPair == PairGenerateActions

SpecPair == InitPair /\ [][NextPair]_vars

(***************************************************************************)
(* Construction, over many task names: a name is up to MaxTokens tokens.   *)
(***************************************************************************)
TaskTokens ==
    { <<"c", "u", "b", "e">>, <<"C", "u", "b", "e">>, <<"C", "U", "B", "E">>,
      <<"b", "i", "n">>, <<"B", "i", "n">>, <<"c", "u", "b">>, <<"i", "n">>,
      <<"_">>, <<"p", "i", "c", "k">> }

RECURSIVE TaskNamesOf(_)
TaskNamesOf(k) ==
    IF k = 0 THEN {<<>>}
    ELSE TaskNamesOf(k - 1) \cup {n \o t : n \in TaskNamesOf(k - 1), t \in TaskTokens}

TaskNames == TaskNamesOf(MaxTokens)

InitTask ==
    \E cls \in Classes, task \in TaskNames :
        /\ self = None
        /\ raised = NoError
        /\ ret = NoTensor
        /\ last = [op |-> "call", scene |-> 0,
                   args |-> [cls |-> cls, task |-> task, dt |-> Dt_0_1, num_envs |-> 1]]
        /\ hist = HistInit
        /\ peer = None

\* cls(task, dt, num_envs): the object __init__ builds, or the exception it raises
Construct ==
    /\ last.op = "call"
    /\ \E r \in {New(last.args.cls, last.args.task, last.args.dt, last.args.num_envs)} :
         /\ self' = r.self
         /\ raised' = r.raised
    /\ last' = [last EXCEPT !.op = "__init__"]
    /\ UNCHANGED <<ret, hist, peer>>

NextTask == Construct

SpecTask == InitTask /\ [][NextTask]_vars

(***************************************************************************)
(* A controller of one environment on which compute is called again and    *)
(* again: the driver's loop calls it on every simulation step.             *)
(***************************************************************************)
NextRun == Compute

\* what every compute call does to the call history
TickRecorded == hist' = HistAfterCompute(hist, <<Reads(self)>>)

\* the loop never stops calling compute: a step of NextRun is always possible,
\* and it is the only step that records a tick
SpecRun == InitTicks /\ [][NextRun]_vars /\ WF_hist(TickRecorded)

\* the same loop on a controller of up to MaxEnvs environments, with resets of
\* any environments between the compute calls
NextLoop == Compute \/ ResetIdx \/ ResetAll

\* the loop never stops calling compute, whatever is reset in between
SpecLoop == Init /\ [][NextLoop]_vars /\ WF_hist(TickRecorded)

(***************************************************************************)
(* A controller of MaxEnvs environments (self) and a controller of one     *)
(* environment (peer) that is given what environment peer.env of self is   *)
(* given: the same poses on every compute, and a reset exactly when        *)
(* peer.env is in the reset set.  The other environments of self are shown *)
(* either scene and get any resets.                                        *)
(***************************************************************************)
\* poses for a direct caller of compute, environment j shown scene sv[j]
MixedInputs(n, sv) ==
    [ ee_pose |-> Tensor([j \in Envs(n) |-> ComputeInputs(n, sv[j]).ee_pose[j]]),
      object_pose |-> Tensor([j \in Envs(n) |-> ComputeInputs(n, sv[j]).object_pose[j]]),
      des_object_pose |-> Tensor([j \in Envs(n) |-> ComputeInputs(n, sv[j]).des_object_pose[j]]) ]

\* row i of the three pose batches, as batches of one environment
RowInputs(in, i) ==
    [ ee_pose |-> (0 :> in.ee_pose[i]),
      object_pose |-> (0 :> in.object_pose[i]),
      des_object_pose |-> (0 :> in.des_object_pose[i]) ]

InitSolo ==
    \E dt \in DtCoarse, i \in Envs(MaxEnvs) :
        /\ self = New(Cls_PickAndLiftSm, <<"b", "i", "n">>, dt, MaxEnvs).self
        /\ raised = NoError
        /\ ret = NoTensor
        /\ last = [op |-> "__init__", scene |-> 0]
        /\ hist = HistInit
        /\ peer = [ self |-> New(Cls_PickAndLiftSm, <<"b", "i", "n">>, dt, 1).self,
                    ret |-> NoTensor, raised |-> NoError, env |-> i ]

\* compute on both controllers
SoloCompute ==
    \E s, t \in SceneIds :
        \E sv \in {[j \in Envs(self.num_envs) |-> IF j = peer.env THEN s ELSE t]} :
          \E in \in {MixedInputs(self.num_envs, sv)} :
            \E r \in {ComputeWith(self, in)}, q \in {ComputeWith(peer.self, RowInputs(in, peer.env))} :
                /\ Returned([self |-> r.self, ret |-> r.ret, raised |-> NoError], "compute",
                            sv[peer.env], HistAfterCompute(hist, <<Reads(self)>>))
                /\ peer' = [peer EXCEPT !.self = q.self, !.ret = q.ret]

\* reset_idx(S) on self, and reset_idx on peer when peer.env is in S
SoloResetIdx ==
    \E S \in SUBSET Envs(self.num_envs) :
        /\ self' = reset_idx(self, EnvIds(S))
        /\ peer' = IF peer.env \in S
                   THEN [peer EXCEPT !.self = reset_idx(peer.self, EnvIds({0})), !.ret = NoTensor]
                   ELSE peer
        /\ last' = [op |-> "reset_idx", scene |-> 0]
        /\ ret' = NoTensor
        /\ raised' = NoError
        /\ hist' = HistAfterReset

NextSolo == SoloCompute \/ SoloResetIdx

SpecSolo == InitSolo /\ [][NextSolo]_vars

(***************************************************************************)
(* Properties.  Times are in units of 2^-30 s.                             *)
(***************************************************************************)
\* the (sm_state, sm_wait_time) before each compute call of the last call,
\* followed by what the last of them left
TickChain == hist.reads \o <<Reads(self)>>

\* the gripper commands the compute calls of the last call returned for environment i
EmittedGrippers(i) ==
    IF raised # NoError THEN <<>>
    ELSE IF last.op = "compute" THEN <<ret[i][8]>>
    ELSE IF last.op = "generate_actions"
    THEN IF self.cls = Cls_PickAndLiftSm THEN <<ret[i][8], ret[i][16]>> ELSE <<ret[i][16]>>
    ELSE <<>>

\* the thresholds as the transition table states them: 0.2 s (rounded up to
\* the unit), 1.5 s, 1.5 s, 0.5 s
TableThreshold(state) ==
    CASE state = PickSmState_REST -> 214748365
      [] state = PickSmState_APPROACH_ABOVE_OBJECT -> 1610612736
      [] state = PickSmState_APPROACH_OBJECT -> 1610612736
      [] state = PickSmState_GRASP_OBJECT -> 536870912

\* a transition of the chain fires on a tick that starts in state with wait
TableFires(state, wait) ==
    state # PickSmState_LIFT_OBJECT /\ wait >= TableThreshold(state)

\* C1: on every compute tick and for every environment, FsmState moves to the
\* next state of the chain REST, APPROACH_ABOVE_OBJECT, APPROACH_OBJECT,
\* GRASP_OBJECT, LIFT_OBJECT exactly when the WaitTime the tick starts with is
\* at least the state's threshold (0.2, 1.5, 1.5, 0.5 s), and is unchanged
\* otherwise; while the stepped time since construction is below 0.2 s the
\* state is REST.
C1_TransitionsFollowTable ==
    /\ \A k \in 1..Len(hist.reads) : \A i \in Envs(self.num_envs) :
         LET s == TickChain[k].sm_state[i]
             w == TickChain[k].sm_wait_time[i]
             t == TickChain[k + 1].sm_state[i]
         IN  IF TableFires(s, w) THEN t = s + 1 ELSE t = s
    /\ (hist.no_reset /\ hist.computes < MaxTicks /\ hist.computes <= 214748364 \div self.dt)
          => \A i \in Envs(self.num_envs) : self.sm_state[i] = PickSmState_REST

\* C1 witness: a tick that started in APPROACH_ABOVE_OBJECT with 1.5 s or more
\* waited has moved the state to APPROACH_OBJECT
C1_Witness ==
    /\ Len(hist.reads) > 0
    /\ hist.reads[Len(hist.reads)].sm_state[0] = PickSmState_APPROACH_ABOVE_OBJECT
    /\ hist.reads[Len(hist.reads)].sm_wait_time[0] >= 1610612736
    /\ self.sm_state[0] = PickSmState_APPROACH_OBJECT

\* k ticks of one arm's own state machine, started from r
RECURSIVE Advanced(_, _, _)
Advanced(r, dt, k) ==
    IF k = 0 THEN r
    ELSE LET q == Advanced(r, dt, k - 1)
         IN  [ sm_state |-> IF q.sm_wait_time >= KernelThreshold(q.sm_state)
                            THEN KernelNextState(q.sm_state) ELSE q.sm_state,
               sm_wait_time |-> KernelIncrement(KernelWaitAfterBranch(q.sm_state, q.sm_wait_time), dt) ]

\* C2: in PickAndLiftSm the two arms have their own FsmState and WaitTime: after
\* k generate_actions ticks from construction, each arm's state machine has
\* been advanced exactly k times (the right arm's state is what the call left,
\* the left arm's is what its compute left).
C2_ArmsAdvanceOncePerTick ==
    ( /\ self.cls = Cls_PickAndLiftSm
      /\ last.op = "generate_actions"
      /\ hist.no_reset /\ hist.gen_only /\ hist.generates < MaxTicks )
    => \A i \in Envs(self.num_envs) :
         LET once == Advanced([sm_state |-> PickSmState_REST, sm_wait_time |-> 0], self.dt, hist.generates)
         IN  /\ hist.reads[2].sm_state[i] = once.sm_state
             /\ hist.reads[2].sm_wait_time[i] = once.sm_wait_time
             /\ self.sm_state[i] = once.sm_state
             /\ self.sm_wait_time[i] = once.sm_wait_time

\* C3 as stated: with dt = 0.01 and no reset since construction, FsmState is
\* REST after the 19th compute call and APPROACH_ABOVE_OBJECT after the 20th.
C3_TransitionOnTick20 ==
    (self.dt = Dt_0_01 /\ hist.no_reset)
    => /\ hist.computes = 19 => self.sm_state[0] = PickSmState_REST
       /\ hist.computes = 20 => self.sm_state[0] = PickSmState_APPROACH_ABOVE_OBJECT

\* C3 amended: with dt = 0.01 and no reset since construction, FsmState is
\* still REST after the 20th compute call and APPROACH_ABOVE_OBJECT after the 21st.
C3_TransitionOnTick21 ==
    (self.dt = Dt_0_01 /\ hist.no_reset)
    => /\ hist.computes <= 20 => self.sm_state[0] = PickSmState_REST
       /\ hist.computes = 21 => self.sm_state[0] = PickSmState_APPROACH_ABOVE_OBJECT

\* C3 witness: 21 compute calls with dt = 0.01, none reset, the last one from REST
C3_Witness ==
    /\ self.dt = Dt_0_01 /\ hist.no_reset /\ hist.computes = 21
    /\ hist.reads[Len(hist.reads)].sm_state[0] = PickSmState_REST
    /\ self.sm_state[0] = PickSmState_APPROACH_ABOVE_OBJECT

\* C4: with dt = 0.1 and no reset since construction, every compute call
\* leaves the state where it was or one further along the chain, and the
\* state is LIFT_OBJECT only after 37 compute calls or more.
C4_LiftNotBefore37Ticks ==
    (self.dt = Dt_0_1 /\ hist.no_reset)
    => /\ \A k \in 1..Len(hist.reads) :
            TickChain[k + 1].sm_state[0] \in {TickChain[k].sm_state[0], TickChain[k].sm_state[0] + 1}
       /\ self.sm_state[0] = PickSmState_LIFT_OBJECT => hist.computes >= 37

\* C4 witness: with dt = 0.1 the 38th compute call moves GRASP_OBJECT to LIFT_OBJECT
C4_Witness ==
    /\ self.dt = Dt_0_1 /\ hist.no_reset /\ hist.computes = 38
    /\ hist.reads[Len(hist.reads)].sm_state[0] = PickSmState_GRASP_OBJECT
    /\ self.sm_state[0] = PickSmState_LIFT_OBJECT

\* the gripper command the table gives for a tick that starts in state
TableGripper(state) ==
    IF state \in {PickSmState_REST, PickSmState_APPROACH_ABOVE_OBJECT, PickSmState_APPROACH_OBJECT}
    THEN GripperState_OPEN ELSE GripperState_CLOSE

\* C5: the gripper command of every compute tick is OPEN when the tick starts
\* in REST, APPROACH_ABOVE_OBJECT or APPROACH_OBJECT and CLOSE when it starts in
\* GRASP_OBJECT or LIFT_OBJECT; and while no reset has happened, a CLOSE is
\* never followed by an OPEN.
C5_GripperFollowsState ==
    [][ \A i \in Envs(self.num_envs) :
          /\ Len(EmittedGrippers(i)') = Len(hist'.reads)
          /\ \A k \in 1..Len(hist'.reads) :
               /\ EmittedGrippers(i)'[k] = TableGripper(hist'.reads[k].sm_state[i])
               /\ EmittedGrippers(i)'[k] \in {GripperState_OPEN, GripperState_CLOSE}
               /\ (hist'.no_reset /\ self.des_gripper_state[i] = GripperState_CLOSE)
                     => EmittedGrippers(i)'[k] = GripperState_CLOSE
               /\ (hist'.no_reset /\ k > 1 /\ EmittedGrippers(i)'[k - 1] = GripperState_CLOSE)
                     => EmittedGrippers(i)'[k] = GripperState_CLOSE ]_vars

\* C5 witness: one compute call commands CLOSE to one environment and OPEN to another
C5_Witness ==
    /\ last.op = "compute"
    /\ \E i, j \in Envs(self.num_envs) :
         /\ ret[i][8] = GripperState_CLOSE /\ hist.reads[1].sm_state[i] >= PickSmState_GRASP_OBJECT
         /\ ret[j][8] = GripperState_OPEN /\ hist.reads[1].sm_state[j] < PickSmState_GRASP_OBJECT

\* C6: reset_idx on a set S of environments leaves every environment of S in
\* REST with WaitTime 0 and leaves FsmState and WaitTime of every other
\* environment as they were.
C6_ResetFrame ==
    \A S \in SUBSET Envs(self.num_envs) :
        LET after == reset_idx(self, EnvIds(S))
        IN  \A i \in Envs(self.num_envs) :
              IF i \in S
              THEN after.sm_state[i] = PickSmState_REST /\ after.sm_wait_time[i] = 0
              ELSE /\ after.sm_state[i] = self.sm_state[i]
                   /\ after.sm_wait_time[i] = self.sm_wait_time[i]

\* C6 witness: after a reset_idx call one environment is in REST with WaitTime 0
\* while another is past REST with time waited
C6_Witness ==
    /\ last.op = "reset_idx"
    /\ \E i, j \in Envs(self.num_envs) :
         /\ self.sm_state[i] = PickSmState_REST /\ self.sm_wait_time[i] = 0
         /\ self.sm_state[j] # PickSmState_REST /\ self.sm_wait_time[j] > 0

\* C7 as stated: a compute tick on which a transition fires leaves WaitTime 0;
\* a tick on which none fires leaves WaitTime increased by exactly dt.
C7_WaitZeroAfterTransition ==
    \A k \in 1..Len(hist.reads) : \A i \in Envs(self.num_envs) :
        LET s == TickChain[k].sm_state[i]
            w == TickChain[k].sm_wait_time[i]
            v == TickChain[k + 1].sm_wait_time[i]
        IN  IF TableFires(s, w) THEN v = 0 ELSE v = w + self.dt

\* C7 amended: a compute tick on which a transition fires (or which starts in
\* LIFT_OBJECT with 1.0 s or more waited) leaves WaitTime equal to dt; any
\* other tick leaves the single-precision sum of WaitTime and dt.
C7_WaitIsDtAfterTransition ==
    \A k \in 1..Len(hist.reads) : \A i \in Envs(self.num_envs) :
        LET s == TickChain[k].sm_state[i]
            w == TickChain[k].sm_wait_time[i]
            v == TickChain[k + 1].sm_wait_time[i]
        IN  IF TableFires(s, w) \/ (s = PickSmState_LIFT_OBJECT /\ w >= 2^30)
            THEN v = self.dt
            ELSE v = F32Round(w + self.dt)

\* C7 witness: a tick that started in REST with 0.2 s or more waited moved to
\* APPROACH_ABOVE_OBJECT and left WaitTime at dt
C7_Witness ==
    /\ Len(hist.reads) > 0
    /\ hist.reads[Len(hist.reads)].sm_state[0] = PickSmState_REST
    /\ self.sm_state[0] = PickSmState_APPROACH_ABOVE_OBJECT
    /\ self.sm_wait_time[0] = self.dt

\* C8: PickAndLiftRightArmSm.generate_actions returns for every num_envs >= 1,
\* and the left arm's action of every environment is its observed end-effector
\* pose followed by OPEN.
C8_SingleArmTotal ==
    (self.cls = Cls_PickAndLiftRightArmSm /\ last.op = "generate_actions")
    => /\ raised = NoError
       /\ \A i \in Envs(self.num_envs) :
            LET obs == Observation(self.num_envs, last.scene)
            IN  SubSeq(ret[i], 1, 8) =
                  VecSub(obs.left_pos_w[i], obs.env_origins[i]) \o obs.left_quat_w[i]
                    \o <<GripperState_OPEN>>

\* C9: given the same observations tick by tick, the right arm of PickAndLiftSm
\* and the arm of PickAndLiftRightArmSm are in the same FsmState after every
\* generate_actions tick and were sent the same gripper command.
C9_RightArmsAgree ==
    (peer # None /\ last.op = "generate_actions")
    => /\ self.sm_state = peer.self.sm_state
       /\ \A i \in Envs(self.num_envs) : ret[i][16] = peer.ret[i][16]

\* sub occurs in s when case is ignored
ContainsIgnoreCase(sub, s) ==
    \E start \in 0..(Len(s) - Len(sub)) :
        \A k \in 1..Len(sub) : LowerChar(s[start + k]) = LowerChar(sub[k])

CubeProfile == self # None /\ self.task_offset = <<0, 150, -5, 0, 0, 1>>
BinProfile == self # None /\ self.task_offset = <<0, 145, 25, 0, 0, 0>>
Rejected == self = None /\ raised = <<"ValueError", "Unsupported task", last.args.task>>

\* C10 as stated: a task name containing "cube" (case ignored) gives the cube
\* profile, one containing "bin" gives the bin profile, any other name is
\* rejected with an error naming the task; exactly one of the three happens.
C10_ProfileBySubstring ==
    last.op = "__init__"
    => /\ ContainsIgnoreCase(Str_cube, last.args.task) => CubeProfile
       /\ ContainsIgnoreCase(Str_bin, last.args.task) => BinProfile
       /\ ( ~ContainsIgnoreCase(Str_cube, last.args.task)
            /\ ~ContainsIgnoreCase(Str_bin, last.args.task) ) => Rejected
       /\ Cardinality({o \in {"cube", "bin", "rejected"} :
                          \/ o = "cube" /\ CubeProfile
                          \/ o = "bin" /\ BinProfile
                          \/ o = "rejected" /\ Rejected}) = 1

\* C10 amended: a task name containing "cube" (case ignored) gives the cube
\* profile, one containing "bin" and not "cube" gives the bin profile, any
\* other name is rejected with an error naming the task; exactly one of the
\* three happens.
C10_CubeBeforeBin ==
    last.op = "__init__"
    => /\ ContainsIgnoreCase(Str_cube, last.args.task) => CubeProfile
       /\ ( ContainsIgnoreCase(Str_bin, last.args.task)
            /\ ~ContainsIgnoreCase(Str_cube, last.args.task) ) => BinProfile
       /\ ( ~ContainsIgnoreCase(Str_cube, last.args.task)
            /\ ~ContainsIgnoreCase(Str_bin, last.args.task) ) => Rejected
       /\ Cardinality({o \in {"cube", "bin", "rejected"} :
                          \/ o = "cube" /\ CubeProfile
                          \/ o = "bin" /\ BinProfile
                          \/ o = "rejected" /\ Rejected}) = 1

\* C10 witness: a name holding both "bin" and "Cube" was given the cube profile
C10_Witness ==
    /\ last.op = "__init__"
    /\ StrIn(<<"C", "u", "b", "e">>, last.args.task)
    /\ StrIn(<<"b", "i", "n">>, last.args.task)
    /\ CubeProfile

\* the yaw of the object the scene shows, in quarter turns
SceneObjectYaw(s) == IF s = 1 THEN 0 ELSE 2

\* the goal pose (w, x, y, z) of an arm: the goal position moved sideways by
\* lateral, and the orientation generate_actions builds from angle
ArmGoalPose(g, lateral, angle) ==
    <<g[1], g[2] + lateral, g[3], 0, CosEighth(angle), SinEighth(angle), 0>>

\* C11: in PickAndLiftSm.generate_actions, for every environment, the left
\* arm's goal position is the goal position with its lateral component
\* increased by the task's lateral offset and the right arm's is the goal
\* position with it decreased, the angle of the goal orientation is the
\* object's yaw minus the task's yaw for the left arm and plus it for the
\* right arm, and with zero object yaw the two orientations mirror each other;
\* a compute that starts in LIFT_OBJECT returns that goal pose.
C11_DualGoalsMirror ==
    self.cls = Cls_PickAndLiftSm
    => \A i \in Envs(self.num_envs) :
         LET lateral == self.task_offset[2]
             yaw == self.task_offset[6]
         IN  /\ \A s \in SceneIds :
                  LET obs == Observation(self.num_envs, s)
                      g == GoalPos(self.num_envs, s)
                      left == DualLeftInputs(self, obs, g).des_object_pose[i]
                      right == DualRightInputs(self, obs, g).des_object_pose[i]
                  IN  /\ left = ArmGoalPose(g[i], lateral, SceneObjectYaw(s) - yaw)
                      /\ right = ArmGoalPose(g[i], -lateral, SceneObjectYaw(s) + yaw)
                      /\ SceneObjectYaw(s) = 0
                            => /\ left[6] = -right[6]
                               /\ <<left[4], left[5], left[7]>> = <<right[4], right[5], right[7]>>
             /\ (last.op = "generate_actions" /\ hist.reads[1].sm_state[i] = PickSmState_LIFT_OBJECT)
                   => SubSeq(ret[i], 1, 7) =
                        ArmGoalPose(GoalPos(self.num_envs, last.scene)[i], lateral,
                                    SceneObjectYaw(last.scene) - yaw)
             /\ (last.op = "generate_actions" /\ hist.reads[2].sm_state[i] = PickSmState_LIFT_OBJECT)
                   => SubSeq(ret[i], 9, 15) =
                        ArmGoalPose(GoalPos(self.num_envs, last.scene)[i], -lateral,
                                    SceneObjectYaw(last.scene) + yaw)

\* C11 witness: a PickAndLiftSm with a task yaw of a quarter turn, shown an
\* object turned by pi, returned both arms' goal poses from LIFT_OBJECT
C11_Witness ==
    /\ self.cls = Cls_PickAndLiftSm
    /\ last.op = "generate_actions" /\ last.scene = 2
    /\ self.task_offset[6] = 1
    /\ hist.reads[1].sm_state[0] = PickSmState_LIFT_OBJECT
    /\ ret[0][5] # ret[0][13]

\* C12: reset_idx applied twice with the same index set leaves the controller
\* as applying it once does, and reset_idx without an index set leaves every
\* environment in REST with WaitTime 0.
C12_ResetIdempotent ==
    /\ \A S \in SUBSET Envs(self.num_envs) :
         reset_idx(reset_idx(self, EnvIds(S)), EnvIds(S)) = reset_idx(self, EnvIds(S))
    /\ reset_idx(reset_idx(self, EnvIdsNone), EnvIdsNone) = reset_idx(self, EnvIdsNone)
    /\ \A i \in Envs(self.num_envs) :
         /\ reset_idx(self, EnvIdsNone).sm_state[i] = PickSmState_REST
         /\ reset_idx(self, EnvIdsNone).sm_wait_time[i] = 0
    /\ last.op = "reset_idx" => \E S \in SUBSET Envs(self.num_envs) : reset_idx(self, EnvIds(S)) = self

\* C12 witness: a reset_idx call has brought two environments that were
\* grasping back to REST with WaitTime 0
C12_Witness ==
    /\ last.op = "reset_idx"
    /\ self.num_envs > 1
    /\ \A i \in Envs(self.num_envs) :
         /\ self.des_gripper_state[i] = GripperState_CLOSE
         /\ self.sm_state[i] = PickSmState_REST
         /\ self.sm_wait_time[i] = 0

\* C13: directly after a successful construction with num_envs environments,
\* every environment index from 0 to num_envs - 1 has FsmState REST and
\* WaitTime 0.
C13_ConstructedAtRest ==
    (last.op = "__init__" /\ self # None)
    => /\ self.num_envs > 0
       /\ DOMAIN self.sm_state = 0 .. (self.num_envs - 1)
       /\ DOMAIN self.sm_wait_time = 0 .. (self.num_envs - 1)
       /\ \A i \in 0 .. (self.num_envs - 1) :
            self.sm_state[i] = PickSmState_REST /\ self.sm_wait_time[i] = 0

\* C13 witness: a controller just constructed with more than one environment
C13_Witness ==
    /\ last.op = "__init__"
    /\ self # None
    /\ self.num_envs = MaxEnvs
    /\ self.sm_state[MaxEnvs - 1] = PickSmState_REST

\* combine(parent, local) on poses (w, x, y, z): local's position rotated by
\* parent's orientation and added to parent's position, and parent's
\* orientation times local's
CombinePoses(parent, local) ==
    LET pq == <<parent[5], parent[6], parent[7], parent[4]>>
        lq == <<local[5], local[6], local[7], local[4]>>
        r == QuatRotateXYZW(pq, <<local[1], local[2], local[3]>>)
        q == QuatMulXYZW(pq, lq)
    IN  <<parent[1] + r[1], parent[2] + r[2], parent[3] + r[3], q[4], q[1], q[2], q[3]>>

\* the approach offset as a pose (w, x, y, z): 0.1 along z, no rotation
ApproachOffsetPose == <<0, 0, 100, Scale, 0, 0, 0>>

\* C14 as stated: a compute that starts in APPROACH_ABOVE_OBJECT returns
\* combine(object_pose, approach_offset): the object's position plus the
\* offset's position rotated by the object's orientation, and the object's
\* orientation times the offset's, for every object orientation.
C14_OffsetInObjectFrame ==
    last.op = "compute"
    => \A i \in Envs(self.num_envs) :
         hist.reads[1].sm_state[i] = PickSmState_APPROACH_ABOVE_OBJECT
         => SubSeq(ret[i], 1, 7) =
              CombinePoses(ComputeInputs(self.num_envs, last.scene).object_pose[i], ApproachOffsetPose)

\* C14 amended: a compute that starts in APPROACH_ABOVE_OBJECT returns
\* combine(approach_offset, object_pose): the offset's position plus the
\* object's position rotated by the offset's orientation, and the offset's
\* orientation times the object's; the offset's orientation being the
\* identity, that is the object's position raised by 0.1 along z of the frame
\* the pose is given in, and the object's orientation unchanged.
C14_OffsetInWorldFrame ==
    last.op = "compute"
    => \A i \in Envs(self.num_envs) :
         hist.reads[1].sm_state[i] = PickSmState_APPROACH_ABOVE_OBJECT
         => LET object_pose == ComputeInputs(self.num_envs, last.scene).object_pose[i]
            IN  /\ SubSeq(ret[i], 1, 7) = CombinePoses(ApproachOffsetPose, object_pose)
                /\ SubSeq(ret[i], 1, 7) =
                     <<object_pose[1], object_pose[2], object_pose[3] + 100,
                       object_pose[4], object_pose[5], object_pose[6], object_pose[7]>>

\* C14 witness: a compute that started in APPROACH_ABOVE_OBJECT was given an
\* object that is not upright and returned a pose 0.1 above it
C14_Witness ==
    /\ last.op = "compute"
    /\ hist.reads[1].sm_state[0] = PickSmState_APPROACH_ABOVE_OBJECT
    /\ ComputeInputs(self.num_envs, last.scene).object_pose[0][5] # 0
    /\ ret[0][3] = ComputeInputs(self.num_envs, last.scene).object_pose[0][3] + 100

\* C15: the reordering compute applies on entry and the one it applies on exit
\* undo each other, so the 7 pose components compute returns are, component
\* for component, the end-effector pose it was given when the tick starts in
\* REST, the object pose when it starts in APPROACH_OBJECT or GRASP_OBJECT, and
\* the goal pose when it starts in LIFT_OBJECT.
C15_ReorderingsCancel ==
    last.op = "compute"
    => \A i \in Envs(self.num_envs) :
         LET in == ComputeInputs(self.num_envs, last.scene)
             s == hist.reads[1].sm_state[i]
             pose == SubSeq(ret[i], 1, 7)
         IN  /\ \A p \in {in.ee_pose[i], in.object_pose[i], in.des_object_pose[i]} :
                  FromWarpOrder(ToWarpOrder(p)) = p /\ ToWarpOrder(FromWarpOrder(p)) = p
             /\ s = PickSmState_REST => pose = in.ee_pose[i]
             /\ s \in {PickSmState_APPROACH_OBJECT, PickSmState_GRASP_OBJECT} => pose = in.object_pose[i]
             /\ s = PickSmState_LIFT_OBJECT => pose = in.des_object_pose[i]

\* C15 witness: a compute that started in GRASP_OBJECT returned the object pose
\* it was given, whose four quaternion components all differ
C15_Witness ==
    /\ last.op = "compute"
    /\ hist.reads[1].sm_state[0] = PickSmState_GRASP_OBJECT
    /\ Cardinality({ret[0][k] : k \in 4..7}) = 4
    /\ SubSeq(ret[0], 1, 7) = ComputeInputs(self.num_envs, last.scene).object_pose[0]

\* a tick that starts in LIFT_OBJECT stays there, commands CLOSE, returns the
\* goal pose, and restarts WaitTime when it starts with 1.0 s or more waited
LiftTicksRearm ==
    \A k \in 1..Len(hist.reads) : \A i \in Envs(self.num_envs) :
        TickChain[k].sm_state[i] = PickSmState_LIFT_OBJECT
        => /\ TickChain[k + 1].sm_state[i] = PickSmState_LIFT_OBJECT
           /\ EmittedGrippers(i)[k] = GripperState_CLOSE
           /\ last.op = "compute"
                 => SubSeq(ret[i], 1, 7) = ComputeInputs(self.num_envs, last.scene).des_object_pose[i]
           /\ TickChain[k].sm_wait_time[i] >= 2^30
                 => /\ TickChain[k + 1].sm_wait_time[i] <= self.dt
                    /\ TickChain[k + 1].sm_wait_time[i] < TickChain[k].sm_wait_time[i]
           /\ TickChain[k + 1].sm_wait_time[i] - 2^30 < 2 * self.dt

\* the last tick started in LIFT_OBJECT with 1.0 s or more waited and restarted WaitTime
LiftRestarted ==
    /\ Len(hist.reads) > 0
    /\ hist.reads[1].sm_state[0] = PickSmState_LIFT_OBJECT
    /\ hist.reads[1].sm_wait_time[0] >= 2^30
    /\ self.sm_wait_time[0] <= self.dt

\* C16: a tick that starts in LIFT_OBJECT leaves the state LIFT_OBJECT, commands
\* CLOSE and (for a direct compute call) returns the goal pose; one that starts
\* there with WaitTime >= 1.0 s restarts WaitTime, so in LIFT_OBJECT WaitTime
\* stays bounded; and under repeated ticks WaitTime is restarted in LIFT_OBJECT
\* again and again.
C16_LiftRearms == []LiftTicksRearm /\ []<>LiftRestarted

\* C16 witness: a compute that started in LIFT_OBJECT with 1.0 s or more waited
\* left LIFT_OBJECT with WaitTime restarted, after an earlier restart
C16_Witness ==
    /\ last.op = "compute"
    /\ hist.reads[1].sm_state[0] = PickSmState_LIFT_OBJECT
    /\ hist.reads[1].sm_wait_time[0] >= 2^30
    /\ self.sm_state[0] = PickSmState_LIFT_OBJECT
    /\ self.sm_wait_time[0] = self.dt
    /\ ret[0][8] = GripperState_CLOSE

\* C17: environments do not interact: whatever poses the other environments
\* are given and whenever they are reset, an environment's FsmState, WaitTime
\* and returned action are those of a controller that holds this environment
\* alone and is given its poses and its resets, so they agree between any two
\* runs that agree on this environment.
C17_EnvironmentsIndependent ==
    /\ self.sm_state[peer.env] = peer.self.sm_state[0]
    /\ self.sm_wait_time[peer.env] = peer.self.sm_wait_time[0]
    /\ last.op = "compute" => ret[peer.env] = peer.ret[0]

\* C17 witness: after a compute the followed environment is grasping while
\* another environment, reset in between, is in REST, and the followed
\* environment's action is the one the lone controller returned
C17_Witness ==
    /\ last.op = "compute"
    /\ self.sm_state[peer.env] = PickSmState_GRASP_OBJECT
    /\ \E j \in Envs(self.num_envs) : j # peer.env /\ self.sm_state[j] = PickSmState_REST
    /\ ret[peer.env] = peer.ret[0]

\* the wait time PickSmWaitTime declares for state
DeclaredWaitTime(state) ==
    CASE state = PickSmState_REST -> PickSmWaitTime_REST
      [] state = PickSmState_APPROACH_ABOVE_OBJECT -> PickSmWaitTime_APPROACH_ABOVE_OBJECT
      [] state = PickSmState_APPROACH_OBJECT -> PickSmWaitTime_APPROACH_OBJECT
      [] state = PickSmState_GRASP_OBJECT -> PickSmWaitTime_GRASP_OBJECT
      [] state = PickSmState_LIFT_OBJECT -> PickSmWaitTime_LIFT_OBJECT

\* C18: each state's transition is gated by the wait time PickSmWaitTime
\* declares for that same state (REST 0.2 s, APPROACH_ABOVE_OBJECT 0.5 s,
\* APPROACH_OBJECT 1.5 s, GRASP_OBJECT 0.5 s, LIFT_OBJECT 1.0 s): a tick leaves
\* a state before LIFT_OBJECT exactly when it starts with WaitTime at least the
\* state's own declared time, so APPROACH_ABOVE_OBJECT is left on the first tick
\* that starts with WaitTime >= 0.5 s, and a tick in LIFT_OBJECT restarts
\* WaitTime exactly when it starts with WaitTime >= 1.0 s.
C18_GatedByOwnDeclaredTime ==
    \A k \in 1..Len(hist.reads) : \A i \in Envs(self.num_envs) :
        LET s == TickChain[k].sm_state[i]
            w == TickChain[k].sm_wait_time[i]
            t == TickChain[k + 1].sm_state[i]
            v == TickChain[k + 1].sm_wait_time[i]
        IN  IF s = PickSmState_LIFT_OBJECT
            THEN t = s /\ (v < w <=> w >= DeclaredWaitTime(s))
            ELSE IF w >= DeclaredWaitTime(s) THEN t = KernelNextState(s) ELSE t = s

\* C19: in every dual-arm generate_actions tick and for every environment the
\* two arms are in the same phase: the gripper command of the left
\* 8-component action equals the gripper command of the right one, after any
\* sequence of ticks and resets.
C19_ArmsInSamePhase ==
    (self.cls = Cls_PickAndLiftSm /\ last.op = "generate_actions" /\ raised = NoError)
    => \A i \in Envs(self.num_envs) : ret[i][8] = ret[i][16]

\* the wait time the kernel tests in the branch of state
TestedWaitTime(state) ==
    CASE state = PickSmState_REST -> PickSmWaitTime_REST
      [] state = PickSmState_APPROACH_ABOVE_OBJECT -> PickSmWaitTime_APPROACH_OBJECT
      [] state = PickSmState_APPROACH_OBJECT -> PickSmWaitTime_APPROACH_OBJECT
      [] state = PickSmState_GRASP_OBJECT -> PickSmWaitTime_GRASP_OBJECT
      [] state = PickSmState_LIFT_OBJECT -> PickSmWaitTime_LIFT_OBJECT

\* C20: after any sequence of compute and reset_idx calls with dt > 0, every
\* environment has FsmState among REST, APPROACH_ABOVE_OBJECT, APPROACH_OBJECT,
\* GRASP_OBJECT, LIFT_OBJECT and 0 <= WaitTime < threshold(FsmState) + dt, the
\* threshold being the value the code tests in that state; WaitTime is
\* exactly 0 only directly after construction or reset, that is, only while
\* the last call (construction, reset_idx, or a call that raised before its
\* compute) made no compute.
C20_StateAndWaitInRange ==
    \A i \in Envs(self.num_envs) :
        /\ self.dt > 0
        /\ self.sm_state[i] \in {PickSmState_REST, PickSmState_APPROACH_ABOVE_OBJECT,
                                 PickSmState_APPROACH_OBJECT, PickSmState_GRASP_OBJECT,
                                 PickSmState_LIFT_OBJECT}
        /\ self.sm_wait_time[i] >= 0
        /\ self.sm_wait_time[i] - TestedWaitTime(self.sm_state[i]) < self.dt
        /\ self.sm_wait_time[i] = 0 => Len(hist.reads) = 0

\* C20 witness: after a reset and further compute calls, a compute call has
\* left an environment in APPROACH_ABOVE_OBJECT with WaitTime at the tested
\* 1.5 s or above, within dt of it
C20_Witness ==
    /\ ~hist.no_reset
    /\ last.op = "compute"
    /\ self.sm_state[0] = PickSmState_APPROACH_ABOVE_OBJECT
    /\ self.sm_wait_time[0] >= PickSmWaitTime_APPROACH_OBJECT
    /\ self.sm_wait_time[0] - PickSmWaitTime_APPROACH_OBJECT < self.dt

\* no compute call of the last call lowered an environment's state, and none
\* moved an environment out of LIFT_OBJECT
ComputeNeverLowers ==
    \A k \in 1..Len(hist.reads) : \A i \in Envs(self.num_envs) :
        /\ TickChain[k + 1].sm_state[i] >= TickChain[k].sm_state[i]
        /\ TickChain[k].sm_state[i] = PickSmState_LIFT_OBJECT
             => TickChain[k + 1].sm_state[i] = PickSmState_LIFT_OBJECT

\* a call that lowers an environment's state, moves it out of LIFT_OBJECT or
\* returns it to REST is a reset_idx, and it leaves the environment in REST
\* with WaitTime 0
OnlyResetLowers ==
    \A i \in Envs(self.num_envs) :
        ( \/ self'.sm_state[i] < self.sm_state[i]
          \/ self.sm_state[i] = PickSmState_LIFT_OBJECT /\ self'.sm_state[i] # PickSmState_LIFT_OBJECT
          \/ self.sm_state[i] # PickSmState_REST /\ self'.sm_state[i] = PickSmState_REST )
        => /\ last'.op = "reset_idx"
           /\ self'.sm_state[i] = PickSmState_REST
           /\ self'.sm_wait_time[i] = 0

\* C21: between resets an environment's FsmState never moves backward in the
\* order REST < APPROACH_ABOVE_OBJECT < APPROACH_OBJECT < GRASP_OBJECT <
\* LIFT_OBJECT: no compute tick lowers it, an environment in LIFT_OBJECT stays
\* there on every later tick until a reset_idx includes it, and reset_idx is
\* the only operation that returns an environment to REST.
C21_NeverBackward == []ComputeNeverLowers /\ [][OnlyResetLowers]_vars

\* C21 witness: a compute has ticked one environment in LIFT_OBJECT and left it
\* there, while a reset_idx that did not include it returned another
\* environment to REST
C21_Witness ==
    /\ self.num_envs >= 2
    /\ last.op = "compute"
    /\ ~hist.no_reset
    /\ \E i, j \in Envs(self.num_envs) :
         /\ hist.reads[1].sm_state[i] = PickSmState_LIFT_OBJECT
         /\ self.sm_state[i] = PickSmState_LIFT_OBJECT
         /\ hist.reads[1].sm_state[j] = PickSmState_REST

\* a reset_idx call takes environment i back from a wait time above 0
EnvReset(i) ==
    /\ i \in Envs(self.num_envs)
    /\ last'.op = "reset_idx"
    /\ self.sm_wait_time[i] > 0
    /\ self'.sm_wait_time[i] = 0

\* environment i is in LIFT_OBJECT, and a compute that started there returned
\* the goal pose with gripper CLOSE for it
LiftHolds(i) ==
    i \in Envs(self.num_envs)
    => /\ self.sm_state[i] = PickSmState_LIFT_OBJECT
       /\ (last.op = "compute" /\ hist.reads[1].sm_state[i] = PickSmState_LIFT_OBJECT)
            => ret[i] = ComputeInputs(self.num_envs, last.scene).des_object_pose[i]
                           \o <<GripperState_CLOSE>>

\* C22: with dt > 0, when compute is called again and again and an environment
\* is reset only finitely often, the environment eventually reaches
\* LIFT_OBJECT and from then on stays there, every compute returning the goal
\* pose with gripper CLOSE; so no state other than LIFT_OBJECT holds an
\* environment forever.
C22_EventuallyLifts ==
    \A i \in Envs(MaxEnvs) : ([]<><<EnvReset(i)>>_vars) \/ <>[]LiftHolds(i)

\* C22 witness: after a reset, repeated computes have brought an environment
\* to LIFT_OBJECT and a compute that started there returned the goal pose with
\* CLOSE, while another environment was reset again and is behind
C22_Witness ==
    /\ ~hist.no_reset
    /\ last.op = "compute"
    /\ self.dt > 0
    /\ \E i \in Envs(self.num_envs) :
         /\ hist.reads[1].sm_state[i] = PickSmState_LIFT_OBJECT
         /\ self.sm_state[i] = PickSmState_LIFT_OBJECT
         /\ ret[i] = ComputeInputs(self.num_envs, last.scene).des_object_pose[i]
                        \o <<GripperState_CLOSE>>
         /\ \E j \in Envs(self.num_envs) : self.sm_state[j] = PickSmState_APPROACH_ABOVE_OBJECT

\* the k of a state whose tested threshold is k * dt
StayTicks(state, dt) == (TestedWaitTime(state) + dt \div 2) \div dt

\* seq, a run of wait times, continued by up to len more additions of dt in
\* float32, stopping at the first above the largest threshold
RECURSIVE AccumulatedBlock(_, _, _)
AccumulatedBlock(seq, dt, len) ==
    IF len = 0 \/ seq[Len(seq)] > PickSmWaitTime_APPROACH_OBJECT THEN seq
    ELSE CHOOSE all \in { AccumulatedBlock(longer, dt, len - 1) :
                            longer \in {Append(seq, F32Add(seq[Len(seq)], dt))} } : TRUE

\* the wait times 0.0, 0.0 + dt, (0.0 + dt) + dt, ... in float32, up to the
\* first above the largest threshold, computed 16 additions at a time
RECURSIVE AccumulatedFrom(_, _)
AccumulatedFrom(seq, dt) ==
    IF seq[Len(seq)] > PickSmWaitTime_APPROACH_OBJECT THEN seq
    ELSE CHOOSE all \in { AccumulatedFrom(longer, dt) :
                            longer \in {AccumulatedBlock(seq, dt, 16)} } : TRUE

Accumulated == [dt \in DtFine |-> AccumulatedFrom(<<0>>, dt)]

\* how many additions of dt to 0.0 give the wait time w: -1 when none does
Increments(dt, w) ==
    IF \E n \in 1..Len(Accumulated[dt]) : Accumulated[dt][n] = w
    THEN (CHOOSE n \in 1..Len(Accumulated[dt]) : Accumulated[dt][n] = w) - 1
    ELSE 0 - 1

\* the least number of additions of dt whose float32 sum is at least the
\* threshold the kernel tests in state
ReachTicks == [dt \in DtFine |-> [state \in PickSmStates |->
    (CHOOSE n \in 1..Len(Accumulated[dt]) :
        /\ Accumulated[dt][n] >= TestedWaitTime(state)
        /\ \A m \in 1..(n - 1) : Accumulated[dt][m] < TestedWaitTime(state)) - 1]]

\* every tick of the last call started with at least 1 addition behind it
\* (0 in REST) and at most stay(state), left the state (in LIFT_OBJECT:
\* restarted the wait time) exactly when it started with stay(state)
\* additions behind it, and otherwise added one
StaysLast(stay) ==
    \A j \in 1..Len(hist.reads) : \A i \in Envs(self.num_envs) :
         LET s == TickChain[j].sm_state[i]
             t == TickChain[j + 1].sm_state[i]
             v == TickChain[j + 1].sm_wait_time[i]
             n == Increments(self.dt, TickChain[j].sm_wait_time[i])
         IN  /\ n >= (IF s = PickSmState_REST THEN 0 ELSE 1)
             /\ n <= stay[s]
             /\ IF n = stay[s]
                THEN t = KernelNextState(s) /\ v = self.dt
                ELSE t = s /\ Increments(self.dt, v) = n + 1

\* with dt = 0.1 and no reset the state is LIFT_OBJECT exactly from the 38th
\* compute tick on
LiftAfter38Ticks ==
    (self.dt = Dt_0_1 /\ hist.no_reset)
    => \A i \in Envs(self.num_envs) :
         self.sm_state[i] = PickSmState_LIFT_OBJECT <=> hist.computes >= 38

\* C23 as stated: the transition test reads the wait time before the increment
\* and a fired transition leaves the wait time at dt, so a state whose
\* threshold is T = k * dt (k >= 1) occupies exactly k consecutive tick starts
\* when it was entered by a transition, and exactly k + 1 when it is REST
\* entered by construction or reset_idx; with dt = 0.1 the state is
\* LIFT_OBJECT for the first time after exactly 3 + 15 + 15 + 5 = 38 compute
\* ticks.
C23_StayLengths ==
    /\ StaysLast([s \in PickSmStates |-> StayTicks(s, self.dt)])
    /\ LiftAfter38Ticks

\* C23 amended: a state occupies as many tick starts as it takes the float32
\* sum dt + dt + ... to reach the tested threshold T (one more for REST
\* entered by construction or reset_idx, whose first tick starts at 0): with
\* dt = 0.1 that is k = T / dt for every state, so LIFT_OBJECT is reached for
\* the first time after exactly 3 + 15 + 15 + 5 = 38 compute ticks; with
\* dt = 0.01 it is k = 20 for REST (21 tick starts) but k + 1 for the other
\* states (151, 151, 51, and 101 between restarts in LIFT_OBJECT), because
\* the sum of k float32 additions of 0.01 stays below T.
C23_StayLengthsInFloat32 ==
    /\ StaysLast(ReachTicks[self.dt])
    /\ \A s \in PickSmStates :
         ReachTicks[self.dt][s] =
            StayTicks(s, self.dt)
              + (IF self.dt = Dt_0_01 /\ s # PickSmState_REST THEN 1 ELSE 0)
    /\ LiftAfter38Ticks

\* C23 witness: with dt = 0.1 and no reset, the 38th compute tick is the fifth
\* that starts in GRASP_OBJECT, it starts with 5 additions behind it and
\* moves the state to LIFT_OBJECT
C23_Witness ==
    /\ self.dt = Dt_0_1 /\ hist.no_reset /\ hist.computes = 38
    /\ last.op = "compute"
    /\ hist.reads[1].sm_state[0] = PickSmState_GRASP_OBJECT
    /\ Increments(self.dt, hist.reads[1].sm_wait_time[0]) = 5
    /\ StayTicks(PickSmState_GRASP_OBJECT, self.dt) = 5
    /\ self.sm_state[0] = PickSmState_LIFT_OBJECT

\* C23 second witness: with dt = 0.01 a tick that started in
\* APPROACH_ABOVE_OBJECT with 150 additions behind it has left the state where
\* it was
C23_WitnessShortSum ==
    /\ self.dt = Dt_0_01
    /\ Len(hist.reads) > 0
    /\ hist.reads[Len(hist.reads)].sm_state[0] = PickSmState_APPROACH_ABOVE_OBJECT
    /\ Increments(self.dt, hist.reads[Len(hist.reads)].sm_wait_time[0]) = 150
    /\ self.sm_state[0] = PickSmState_APPROACH_ABOVE_OBJECT

=============================================================================
